---- MODULE Spec2Model ----
(***************************************************************************)
(* Receiver configuration decoding of config/notifies.go: the eight        *)
(* UnmarshalYAML handlers, the module-level default values they copy from  *)
(* and the YAML binding they call.                                         *)
(*                                                                         *)
(* A YAML block is a function from key names to raw values. Raw scalars    *)
(* are strings (YAML text); mappings are functions; sequences are tuples.  *)
(* A Go string is a TLA+ string, except e-mail header names, which are     *)
(* tuples of one-character strings so that strings.ToTitle is computed     *)
(* rune by rune. A Go map is a function; the nil map and the empty map are *)
(* both the empty function.                                                *)
(***************************************************************************)
EXTENDS Integers, Sequences, FiniteSets, TLC

VARIABLES
    DefaultPagerdutyConfig, \* the module-level variable; its Details map is shared by reference
    last                    \* the last UnmarshalYAML call: its input, target afterwards, error

vars == <<DefaultPagerdutyConfig, last>>

(***************************************************************************)
(* Bounds of the input space.                                              *)
(***************************************************************************)
MaxHeaders == 2     \* header entries an e-mail block supplies at most
MaxUnknown == 1     \* keys outside the schema a block carries at most

EmptyMap == <<>>

(***************************************************************************)
(* Strings as rune sequences, and strings.ToTitle.                         *)
(***************************************************************************)
LowerCase == <<"a","b","c","d","e","f","g","h","i","j","k","l","m",
               "n","o","p","q","r","s","t","u","v","w","x","y","z">>
UpperCase == <<"A","B","C","D","E","F","G","H","I","J","K","L","M",
               "N","O","P","Q","R","S","T","U","V","W","X","Y","Z">>

\* The title case of the lower-case letters, which is their upper case.
TitleCase ==
    [r \in {LowerCase[i] : i \in DOMAIN LowerCase} |->
        UpperCase[CHOOSE i \in DOMAIN LowerCase : LowerCase[i] = r]]

\* unicode.ToTitle on one rune: a lower-case letter maps to its title case,
\* any other rune is kept.
ToTitleRune(r) == IF r \in DOMAIN TitleCase THEN TitleCase[r] ELSE r

ToTitleIdentity(s) == s

\* strings.ToTitle(h): every letter of h mapped to title case.
ToTitle(s) == [i \in DOMAIN s |-> ToTitleRune(s[i])]

\* The string literals "Subject", "To", "From" of the e-mail handler.
HdrSubject == <<"S","u","b","j","e","c","t">>
HdrTo      == <<"T","o">>
HdrFrom    == <<"F","r","o","m">>

(***************************************************************************)
(* Module-level defaults.                                                  *)
(***************************************************************************)
DefaultEmailSubject == "{{ template \"email.default.subject\" . }}"

DefaultEmailConfig ==
    [XXX |-> EmptyMap, To |-> "", From |-> "", Smarthost |-> "", Headers |-> EmptyMap,
     HTML |-> "{{ template \"email.default.html\" . }}"]

HipchatFormatHTML == "html"
HipchatFormatText == "text"

DefaultHipchatConfigText ==
    [XXX |-> EmptyMap, AuthToken |-> "", RoomID |-> 0,
     Color |-> "{{ if eq .Status \"firing\" }}purple{{ else }}green{{ end }}",
     Notify |-> FALSE, Prefix |-> "", MessageFormat |-> HipchatFormatText]

DefaultHipchatConfig ==
    [XXX |-> EmptyMap, AuthToken |-> "", RoomID |-> 0,
     Color |-> "{{ if eq .Status \"firing\" }}purple{{ else }}green{{ end }}",
     Notify |-> FALSE, Prefix |-> "", MessageFormat |-> HipchatFormatHTML]

\* The four entries of the Details map literal of DefaultPagerdutyConfig.
InitPagerdutyDetails ==
    [firing       |-> "{{ template \"pagerduty.default.instances\" (.Alerts | firing) }}",
     resolved     |-> "{{ template \"pagerduty.default.instances\" (.Alerts | resolved) }}",
     num_firing   |-> "{{ .Alerts | firing | len }}",
     num_resolved |-> "{{ .Alerts | resolved | len }}"]

\* The value DefaultPagerdutyConfig is initialised to.
InitPagerdutyConfig ==
    [XXX |-> EmptyMap, ServiceKey |-> "", URL |-> "",
     Client |-> "{{ template \"pagerduty.default.client\" . }}",
     ClientURL |-> "{{ template \"pagerduty.default.clientURL\" . }}",
     Description |-> "{{ template \"pagerduty.default.description\" .}}",
     Details |-> InitPagerdutyDetails]

DefaultSlackConfig ==
    [XXX |-> EmptyMap,
     Color |-> "{{ if eq .Status \"firing\" }}danger{{ else }}good{{ end }}",
     URL |-> "", Channel |-> "",
     Username |-> "{{ template \"slack.default.username\" . }}",
     Title |-> "{{ template \"slack.default.title\" . }}",
     TitleLink |-> "{{ template \"slack.default.titlelink\" . }}",
     Pretext |-> "{{ template \"slack.default.pretext\" . }}",
     Text |-> "{{ template \"slack.default.text\" . }}",
     Fallback |-> "{{ template \"slack.default.fallback\" . }}"]

DefaultOpsGenieConfig ==
    [XXX |-> EmptyMap,
     Description |-> "{{ template \"opsgenie.default.description\" . }}",
     Details |-> EmptyMap, APIKey |-> "", APIHost |-> "",
     Source |-> "{{ template \"opsgenie.default.source\" . }}"]

(***************************************************************************)
(* Go zero values of the three configuration types without defaults.       *)
(***************************************************************************)
ZeroFlowdockConfig == [XXX |-> EmptyMap, APIToken |-> "", FromAddress |-> "", Tags |-> <<>>]
ZeroPushoverConfig == [XXX |-> EmptyMap, Token |-> "", UserKey |-> ""]
ZeroWebhookConfig  == [XXX |-> EmptyMap, URL |-> ""]

(***************************************************************************)
(* Struct tags: yaml key |-> struct field and the kind of its Go type.     *)
(***************************************************************************)
Fld(f, t) == [field |-> f, type |-> t]

FlowdockConfig ==
    [api_token |-> Fld("APIToken", "string"), from_address |-> Fld("FromAddress", "string"),
     tags |-> Fld("Tags", "seq")]
EmailConfig ==
    [to |-> Fld("To", "string"), from |-> Fld("From", "string"),
     smarthost |-> Fld("Smarthost", "string"), headers |-> Fld("Headers", "map"),
     html |-> Fld("HTML", "string")]
HipchatConfig ==
    [auth_token |-> Fld("AuthToken", "string"), room_id |-> Fld("RoomID", "int"),
     color |-> Fld("Color", "string"), notify |-> Fld("Notify", "bool"),
     prefix |-> Fld("Prefix", "string"), message_format |-> Fld("MessageFormat", "string")]
PagerdutyConfig ==
    [service_key |-> Fld("ServiceKey", "string"), url |-> Fld("URL", "string"),
     client |-> Fld("Client", "string"), client_url |-> Fld("ClientURL", "string"),
     description |-> Fld("Description", "string"), details |-> Fld("Details", "map")]
PushoverConfig ==
    [token |-> Fld("Token", "string"), user_key |-> Fld("UserKey", "string")]
SlackConfig ==
    [color |-> Fld("Color", "string"),
     url |-> Fld("URL", "string"), channel |-> Fld("Channel", "string"),
     username |-> Fld("Username", "string"),
     title |-> Fld("Title", "string"), title_link |-> Fld("TitleLink", "string"),
     pretext |-> Fld("Pretext", "string"), text |-> Fld("Text", "string"),
     fallback |-> Fld("Fallback", "string")]
WebhookConfig ==
    [url |-> Fld("URL", "string")]
OpsGenieConfig ==
    [description |-> Fld("Description", "string"), details |-> Fld("Details", "map"),
     api_key |-> Fld("APIKey", "string"), api_host |-> Fld("APIHost", "string"),
     source |-> Fld("Source", "string")]

(***************************************************************************)
(* Errors. One record shape for all of them; the context is the text the   *)
(* message carries ("... in Flowdock config", "unknown fields in slack     *)
(* config: ...").                                                          *)
(***************************************************************************)
Err(kind, ctx, field, keys, header, value) ==
    [field |-> field, kind |-> kind, ctx |-> ctx, keys |-> keys,
     header |-> header, value |-> value]

nil == Err("nil", "", "", {}, <<>>, "")

Missing(field, ctx)     == Err("MissingRequiredField", ctx, field, {}, <<>>, "")
InvalidFormat(value)    == Err("InvalidEnumValue", "", "message_format", {}, <<>>, value)
DuplicateHeader(h, ctx) == Err("DuplicateHeader", ctx, "headers", {}, h, "")
TypeError(keys)         == Err("TypeCoercionError", "", "", keys, <<>>, "")

\* checkOverflow(m, ctx): an error naming every key of m when m is not empty.
checkOverflow(m, ctx) ==
    IF DOMAIN m # {}
    THEN Err("UnrecognizedFields", ctx, "", DOMAIN m, <<>>, "")
    ELSE nil

(***************************************************************************)
(* The YAML binding behind the unmarshal callback (gopkg.in/yaml.v2).      *)
(***************************************************************************)
Atoi == ("0" :> 0) @@ ("5" :> 5)
Itoa(n) == CHOOSE s \in DOMAIN Atoi : Atoi[s] = n

\* Writing the entries of new into the map old: entries of old that new does
\* not name are kept.
Merge(old, new) ==
    [k \in DOMAIN old \cup DOMAIN new |-> IF k \in DOMAIN new THEN new[k] ELSE old[k]]

Put(m, k, v) == [x \in DOMAIN m \cup {k} |-> IF x = k THEN v ELSE m[x]]

\* Whether the raw value binds to a field of the given kind.
Coercible(type, raw) ==
    CASE type = "int"  -> raw \in DOMAIN Atoi
      [] type = "bool" -> raw \in {"true", "false"}
      [] OTHER         -> TRUE

\* The field after binding raw to it. A map field that is not nil is written
\* into, entry by entry; every other kind of field is replaced.
Bind(type, old, raw) ==
    CASE type = "int"  -> Atoi[raw]
      [] type = "bool" -> (raw = "true")
      [] type = "map"  -> Merge(old, raw)
      [] OTHER         -> raw

\* unmarshal((*plain)(c)): every key of the block that the struct tags name is
\* bound to its field, every other key goes to the inline map XXX, which is
\* reset first; a field the block does not name keeps the value c had. A value
\* that does not bind leaves its field alone and makes the call return an error.
unmarshal(c, block, tags) ==
    LET known == DOMAIN block \cap DOMAIN tags
        bad   == {k \in known : ~Coercible(tags[k].type, block[k])}
        keyOf(f) == {k \in known \ bad : tags[k].field = f}
        bound == [f \in DOMAIN c |->
                    IF f = "XXX"
                    THEN [k \in DOMAIN block \ DOMAIN tags |-> block[k]]
                    ELSE IF keyOf(f) # {}
                         THEN LET k == CHOOSE k \in keyOf(f) : TRUE
                              IN  Bind(tags[k].type, c[f], block[k])
                         ELSE c[f]]
    IN  [c |-> bound, err |-> IF bad = {} THEN nil ELSE TypeError(bad)]

\* The value a handler leaves in its target, and the error it returns.
Ret(c, err) == [c |-> c, err |-> err]

(***************************************************************************)
(* The handlers. Each yields the set of outcomes the call can have (more   *)
(* than one only where the order of a Go map iteration decides).           *)
(***************************************************************************)
FlowdockConfig_UnmarshalYAML(c, block) ==
    LET r == unmarshal(c, block, FlowdockConfig) IN
    IF r.err # nil THEN {r}
    ELSE IF r.c.APIToken = "" THEN {Ret(r.c, Missing("api_token", "Flowdock config"))}
    ELSE IF r.c.FromAddress = "" THEN {Ret(r.c, Missing("from_address", "Flowdock config"))}
    ELSE {Ret(r.c, checkOverflow(r.c.XXX, "flowdock config"))}

\* The e-mail handler with the header loop moved before the test of To.
EmailConfig_HeadersFirst(c, block) ==
    LET r  == unmarshal(DefaultEmailConfig, block, EmailConfig)
        hs == r.c.Headers
        dups == {ToTitle(h) : h \in {h \in DOMAIN hs :
                                \E g \in DOMAIN hs : g # h /\ ToTitle(g) = ToTitle(h)}}
    IN  IF r.err # nil THEN {r}
        ELSE IF dups # {} THEN {Ret(r.c, DuplicateHeader(n, "email config")) : n \in dups}
        ELSE IF r.c.To = "" THEN {Ret(r.c, Missing("to", "email config"))}
        ELSE {Ret(r.c, checkOverflow(r.c.XXX, "email config"))}

EmailConfig_UnmarshalYAML(c, block) ==
    LET r  == unmarshal(DefaultEmailConfig, block, EmailConfig)
        hs == r.c.Headers
        \* the canonical names a second header of the loop can find taken
        dups == {ToTitle(h) : h \in {h \in DOMAIN hs :
                                \E g \in DOMAIN hs : g # h /\ ToTitle(g) = ToTitle(h)}}
        normalizedHeaders ==
            [n \in {ToTitle(h) : h \in DOMAIN hs} |->
                hs[CHOOSE h \in DOMAIN hs : ToTitle(h) = n]]
        withSubject == IF HdrSubject \in DOMAIN normalizedHeaders THEN normalizedHeaders
                       ELSE Put(normalizedHeaders, HdrSubject, DefaultEmailSubject)
        withTo      == IF HdrTo \in DOMAIN withSubject THEN withSubject
                       ELSE Put(withSubject, HdrTo, r.c.To)
        withFrom    == IF HdrFrom \in DOMAIN withTo THEN withTo
                       ELSE Put(withTo, HdrFrom, r.c.From)
        done == [r.c EXCEPT !.Headers = withFrom]
    IN  IF r.err # nil THEN {r}
        ELSE IF r.c.To = "" THEN {Ret(r.c, Missing("to", "email config"))}
        ELSE IF dups # {} THEN {Ret(r.c, DuplicateHeader(n, "email config")) : n \in dups}
        ELSE {Ret(done, checkOverflow(done.XXX, "email config"))}

\* The HipChat handler with checkOverflow called before the field checks.
HipchatConfig_OverflowFirst(c, block) ==
    LET r == unmarshal(DefaultHipchatConfig, block, HipchatConfig) IN
    IF r.err # nil THEN {r}
    ELSE IF checkOverflow(r.c.XXX, "hipchat config") # nil
         THEN {Ret(r.c, checkOverflow(r.c.XXX, "hipchat config"))}
    ELSE IF r.c.AuthToken = "" THEN {Ret(r.c, Missing("auth_token", "HipChat config"))}
    ELSE IF r.c.MessageFormat # HipchatFormatHTML /\ r.c.MessageFormat # HipchatFormatText
         THEN {Ret(r.c, InvalidFormat(r.c.MessageFormat))}
    ELSE {Ret(r.c, nil)}

HipchatConfig_UnmarshalYAML(c, block) ==
    LET r == unmarshal(DefaultHipchatConfig, block, HipchatConfig) IN
    IF r.err # nil THEN {r}
    ELSE IF r.c.AuthToken = "" THEN {Ret(r.c, Missing("auth_token", "HipChat config"))}
    ELSE IF r.c.MessageFormat # HipchatFormatHTML /\ r.c.MessageFormat # HipchatFormatText
         THEN {Ret(r.c, InvalidFormat(r.c.MessageFormat))}
    ELSE {Ret(r.c, checkOverflow(r.c.XXX, "hipchat config"))}

\* The PagerDuty handler run against the value dflt of DefaultPagerdutyConfig.
\* The struct assignment copies the map header, not the map: c.Details is the
\* map of dflt, and unmarshal writes the block's details into it.
PagerdutyFrom(dflt, block) ==
    LET r == unmarshal(dflt, block, PagerdutyConfig) IN
    IF r.err # nil THEN {r}
    ELSE IF r.c.ServiceKey = "" THEN {Ret(r.c, Missing("service_key", "PagerDuty config"))}
    ELSE {Ret(r.c, checkOverflow(r.c.XXX, "pagerduty config"))}

PagerdutyConfig_UnmarshalYAML(c, block) == PagerdutyFrom(DefaultPagerdutyConfig, block)

\* The Pushover handler testing UserKey before Token.
PushoverConfig_UserKeyFirst(c, block) ==
    LET r == unmarshal(c, block, PushoverConfig) IN
    IF r.err # nil THEN {r}
    ELSE IF r.c.UserKey = "" THEN {Ret(r.c, Missing("user_key", "Pushover config"))}
    ELSE IF r.c.Token = "" THEN {Ret(r.c, Missing("token", "Pushover config"))}
    ELSE {Ret(r.c, checkOverflow(r.c.XXX, "pushover config"))}

PushoverConfig_UnmarshalYAML(c, block) ==
    LET r == unmarshal(c, block, PushoverConfig) IN
    IF r.err # nil THEN {r}
    ELSE IF r.c.Token = "" THEN {Ret(r.c, Missing("token", "Pushover config"))}
    ELSE IF r.c.UserKey = "" THEN {Ret(r.c, Missing("user_key", "Pushover config"))}
    ELSE {Ret(r.c, checkOverflow(r.c.XXX, "pushover config"))}

SlackConfig_UnmarshalYAML(c, block) ==
    LET r == unmarshal(DefaultSlackConfig, block, SlackConfig) IN
    IF r.err # nil THEN {r}
    ELSE IF r.c.Channel = "" THEN {Ret(r.c, Missing("channel", "Slack config"))}
    ELSE {Ret(r.c, checkOverflow(r.c.XXX, "slack config"))}

WebhookConfig_UnmarshalYAML(c, block) ==
    LET r == unmarshal(c, block, WebhookConfig) IN
    IF r.err # nil THEN {r}
    ELSE IF r.c.URL = "" THEN {Ret(r.c, Missing("url", "webhook config"))}
    ELSE {Ret(r.c, checkOverflow(r.c.XXX, "slack config"))}

OpsGenieConfig_UnmarshalYAML(c, block) ==
    LET r == unmarshal(DefaultOpsGenieConfig, block, OpsGenieConfig) IN
    IF r.err # nil THEN {r}
    ELSE IF r.c.APIKey = "" THEN {Ret(r.c, Missing("api_key", "OpsGenie config"))}
    ELSE {Ret(r.c, checkOverflow(r.c.XXX, "opsgenie config"))}

(***************************************************************************)
(* The blocks handed to the handlers.                                      *)
(***************************************************************************)
Variants == {"Flowdock", "Email", "Hipchat", "Pagerduty", "Pushover", "Slack",
             "Webhook", "OpsGenie"}

\* A key left out of the block, or given one of the values.
Opt(k, vals) == {EmptyMap} \cup {(k :> v) : v \in vals}

UnknownKeys == {"foo", "bar"}
UnknownOpts ==
    {[k \in S |-> "1"] : S \in {T \in SUBSET UnknownKeys : Cardinality(T) <= MaxUnknown}}

HeaderNames ==
    {HdrSubject, <<"s","u","b","j","e","c","t">>, HdrTo, <<"f","r","o","m">>,
     <<"C","o","n","t","e","n","t","-","T","y","p","e">>,
     <<"c","o","n","t","e","n","t","-","t","y","p","e">>}
HeaderValue(h) == IF h = ToTitle(h) \/ h[1] # ToTitleRune(h[1]) THEN "y" ELSE "x"
HeaderMaps ==
    {[h \in S |-> HeaderValue(h)] :
        S \in {T \in SUBSET HeaderNames : T # {} /\ Cardinality(T) <= MaxHeaders}}

\* The details a block supplies: one entry that is also a default entry, and
\* one that is not.
DetailMaps == {[firing |-> "custom", runbook |-> "custom"]}

Join3(a, b, u) == Merge(Merge(a, b), u)

FlowdockBlocks ==
    {Merge(Join3(a, b, t), u) :
        a \in Opt("api_token", {"", "tok"}), b \in Opt("from_address", {"", "me@x"}),
        t \in Opt("tags", {<<"ops">>}), u \in UnknownOpts}
EmailBlocks ==
    {Merge(Join3(a, b, h), u) :
        a \in Opt("to", {"", "a@b.com"}), b \in Opt("from", {"c@d.com"}),
        h \in Opt("headers", HeaderMaps), u \in UnknownOpts}
HipchatBlocks ==
    {Merge(Join3(a, m, n), u) :
        a \in Opt("auth_token", {"", "tok"}),
        m \in Opt("message_format", {"", "html", "text", "markdown"}),
        n \in Opt("room_id", {"5", "five"}), u \in UnknownOpts}
PagerdutyBlocks ==
    {Join3(a, d, u) :
        a \in Opt("service_key", {"", "key"}), d \in Opt("details", DetailMaps),
        u \in UnknownOpts}
PushoverBlocks ==
    {Join3(a, b, u) :
        a \in Opt("token", {"", "tok"}), b \in Opt("user_key", {"", "usr"}),
        u \in UnknownOpts}
SlackBlocks ==
    {Join3(a, b, u) :
        a \in Opt("channel", {"", "#ops"}), b \in Opt("color", {"red"}), u \in UnknownOpts}
WebhookBlocks ==
    {Merge(a, u) : a \in Opt("url", {"", "http://x"}), u \in UnknownOpts}
OpsGenieBlocks ==
    {Merge(Join3(a, b, d), u) :
        a \in Opt("api_key", {"", "key"}), b \in Opt("description", {"desc"}),
        d \in Opt("details", DetailMaps), u \in UnknownOpts}

Blocks(v) ==
    CASE v = "Flowdock"  -> FlowdockBlocks
      [] v = "Email"     -> EmailBlocks
      [] v = "Hipchat"   -> HipchatBlocks
      [] v = "Pagerduty" -> PagerdutyBlocks
      [] v = "Pushover"  -> PushoverBlocks
      [] v = "Slack"     -> SlackBlocks
      [] v = "Webhook"   -> WebhookBlocks
      [] v = "OpsGenie"  -> OpsGenieBlocks

Tags(v) ==
    CASE v = "Flowdock"  -> FlowdockConfig
      [] v = "Email"     -> EmailConfig
      [] v = "Hipchat"   -> HipchatConfig
      [] v = "Pagerduty" -> PagerdutyConfig
      [] v = "Pushover"  -> PushoverConfig
      [] v = "Slack"     -> SlackConfig
      [] v = "Webhook"   -> WebhookConfig
      [] v = "OpsGenie"  -> OpsGenieConfig

\* A newly allocated value of the variant's type.
Zero(v) ==
    CASE v = "Flowdock"  -> ZeroFlowdockConfig
      [] v = "Email"     -> [DefaultEmailConfig EXCEPT !.HTML = ""]
      [] v = "Hipchat"   -> [DefaultHipchatConfig EXCEPT !.Color = "", !.MessageFormat = ""]
      [] v = "Pagerduty" -> [XXX |-> EmptyMap, ServiceKey |-> "", URL |-> "", Client |-> "",
                             ClientURL |-> "", Description |-> "", Details |-> EmptyMap]
      [] v = "Pushover"  -> ZeroPushoverConfig
      [] v = "Slack"     -> [f \in DOMAIN DefaultSlackConfig |->
                                IF f = "XXX" THEN EmptyMap ELSE ""]
      [] v = "Webhook"   -> ZeroWebhookConfig
      [] v = "OpsGenie"  -> [DefaultOpsGenieConfig EXCEPT !.Description = "", !.Source = ""]

UnmarshalYAML(v, c, block) ==
    CASE v = "Flowdock"  -> FlowdockConfig_UnmarshalYAML(c, block)
      [] v = "Email"     -> EmailConfig_UnmarshalYAML(c, block)
      [] v = "Hipchat"   -> HipchatConfig_UnmarshalYAML(c, block)
      [] v = "Pagerduty" -> PagerdutyConfig_UnmarshalYAML(c, block)
      [] v = "Pushover"  -> PushoverConfig_UnmarshalYAML(c, block)
      [] v = "Slack"     -> SlackConfig_UnmarshalYAML(c, block)
      [] v = "Webhook"   -> WebhookConfig_UnmarshalYAML(c, block)
      [] v = "OpsGenie"  -> OpsGenieConfig_UnmarshalYAML(c, block)

\* The value written back as a block: every tagged field under its key, in
\* YAML text, and the entries of the inline map beside them.
Format(type, val) ==
    CASE type = "int"  -> Itoa(val)
      [] type = "bool" -> IF val THEN "true" ELSE "false"
      [] OTHER         -> val
AsBlock(v, c) ==
    Merge([k \in DOMAIN Tags(v) |-> Format(Tags(v)[k].type, c[Tags(v)[k].field])], c.XXX)

(***************************************************************************)
(* State machine.                                                          *)
(***************************************************************************)
Call(op, v, block, r, prev) ==
    [c |-> r.c, block |-> block, err |-> r.err, op |-> op, prev |-> prev, variant |-> v]

Init ==
    /\ DefaultPagerdutyConfig = InitPagerdutyConfig
    /\ last = Call("init", "none", EmptyMap, Ret(EmptyMap, nil), EmptyMap)

\* What a call leaves in DefaultPagerdutyConfig. The target of a PagerDuty
\* call holds the Details map of the variable itself, so the entries the call
\* wrote are entries of the variable's map.
Shared(v, r) ==
    IF v = "Pagerduty"
    THEN [DefaultPagerdutyConfig EXCEPT !.Details = r.c.Details]
    ELSE DefaultPagerdutyConfig

\* The loader decodes a block into a newly allocated value.
DecodeFlowdock ==
    \E block \in FlowdockBlocks :
    \E r \in FlowdockConfig_UnmarshalYAML(ZeroFlowdockConfig, block) :
        /\ last' = Call("decode", "Flowdock", block, r, EmptyMap)
        /\ UNCHANGED DefaultPagerdutyConfig

DecodeEmail ==
    \E block \in EmailBlocks :
    \E r \in EmailConfig_UnmarshalYAML(Zero("Email"), block) :
        /\ last' = Call("decode", "Email", block, r, EmptyMap)
        /\ UNCHANGED DefaultPagerdutyConfig

DecodeHipchat ==
    \E block \in HipchatBlocks :
    \E r \in HipchatConfig_UnmarshalYAML(Zero("Hipchat"), block) :
        /\ last' = Call("decode", "Hipchat", block, r, EmptyMap)
        /\ UNCHANGED DefaultPagerdutyConfig

DecodePagerduty ==
    \E block \in PagerdutyBlocks :
    \E r \in PagerdutyConfig_UnmarshalYAML(Zero("Pagerduty"), block) :
        /\ last' = Call("decode", "Pagerduty", block, r, EmptyMap)
        /\ DefaultPagerdutyConfig' = Shared("Pagerduty", r)

DecodePushover ==
    \E block \in PushoverBlocks :
    \E r \in PushoverConfig_UnmarshalYAML(ZeroPushoverConfig, block) :
        /\ last' = Call("decode", "Pushover", block, r, EmptyMap)
        /\ UNCHANGED DefaultPagerdutyConfig

DecodeSlack ==
    \E block \in SlackBlocks :
    \E r \in SlackConfig_UnmarshalYAML(Zero("Slack"), block) :
        /\ last' = Call("decode", "Slack", block, r, EmptyMap)
        /\ UNCHANGED DefaultPagerdutyConfig

DecodeWebhook ==
    \E block \in WebhookBlocks :
    \E r \in WebhookConfig_UnmarshalYAML(ZeroWebhookConfig, block) :
        /\ last' = Call("decode", "Webhook", block, r, EmptyMap)
        /\ UNCHANGED DefaultPagerdutyConfig

DecodeOpsGenie ==
    \E block \in OpsGenieBlocks :
    \E r \in OpsGenieConfig_UnmarshalYAML(Zero("OpsGenie"), block) :
        /\ last' = Call("decode", "OpsGenie", block, r, EmptyMap)
        /\ UNCHANGED DefaultPagerdutyConfig

\* The value of a successful decode is written back as a block and decoded
\* again into a newly allocated value.
Redecode ==
    /\ last.op # "init"
    /\ last.err = nil
    /\ \E r \in UnmarshalYAML(last.variant, Zero(last.variant),
                              AsBlock(last.variant, last.c)) :
        /\ last' = Call("redecode", last.variant, AsBlock(last.variant, last.c), r, last.c)
        /\ DefaultPagerdutyConfig' = Shared(last.variant, r)

\* A caller decodes a block into the value the previous call left behind.
DecodeInto ==
    /\ last.op # "init"
    /\ \E block \in Blocks(last.variant) :
       \E r \in UnmarshalYAML(last.variant, last.c, block) :
        /\ last' = Call("reuse", last.variant, block, r, EmptyMap)
        /\ DefaultPagerdutyConfig' = Shared(last.variant, r)

Next ==
    \/ DecodeFlowdock
    \/ DecodeEmail
    \/ DecodeHipchat
    \/ DecodePagerduty
    \/ DecodePushover
    \/ DecodeSlack
    \/ DecodeWebhook
    \/ DecodeOpsGenie
    \/ Redecode

Spec == Init /\ [][Next]_vars

NextReuse == Next \/ DecodeInto

SpecReuse == Init /\ [][NextReuse]_vars

(***************************************************************************)
(* Vocabulary of the properties. These are stated on the block that was    *)
(* handed in, not on what the handlers computed from it.                   *)
(***************************************************************************)
\* A call was made, and every value of the block was bound to its field.
Called  == last.op # "init"
Decoded == Called /\ last.err.kind # "TypeCoercionError"
Is(v)   == Decoded /\ last.variant = v

\* The keys of the block outside the variant's schema.
Residual == DOMAIN last.block \ DOMAIN Tags(last.variant)

\* The required keys of each variant, in the order they are listed.
Required(v) ==
    CASE v = "Flowdock"  -> <<"api_token", "from_address">>
      [] v = "Email"     -> <<"to">>
      [] v = "Hipchat"   -> <<"auth_token">>
      [] v = "Pagerduty" -> <<"service_key">>
      [] v = "Pushover"  -> <<"token", "user_key">>
      [] v = "Slack"     -> <<"channel">>
      [] v = "Webhook"   -> <<"url">>
      [] v = "OpsGenie"  -> <<"api_key">>

\* The variant an error message names.
VariantOfCtx(ctx) ==
    CASE ctx \in {"Flowdock config", "flowdock config"}   -> "Flowdock"
      [] ctx = "email config"                             -> "Email"
      [] ctx \in {"HipChat config", "hipchat config"}     -> "Hipchat"
      [] ctx \in {"PagerDuty config", "pagerduty config"} -> "Pagerduty"
      [] ctx \in {"Pushover config", "pushover config"}   -> "Pushover"
      [] ctx \in {"Slack config", "slack config"}         -> "Slack"
      [] ctx = "webhook config"                           -> "Webhook"
      [] ctx \in {"OpsGenie config", "opsgenie config"}   -> "OpsGenie"
      [] OTHER                                            -> "none"

Omitted(k)  == k \notin DOMAIN last.block
Absent(k)   == Omitted(k) \/ last.block[k] = ""
RequiredOf  == Required(last.variant)
NoneAbsent  == \A i \in DOMAIN RequiredOf : ~Absent(RequiredOf[i])
\* The first required key, in listed order, that the block leaves absent.
FirstAbsent ==
    RequiredOf[CHOOSE i \in DOMAIN RequiredOf :
                    /\ Absent(RequiredOf[i])
                    /\ \A j \in 1..(i - 1) : ~Absent(RequiredOf[j])]

FormatInDomain ==
    Omitted("message_format") \/ last.block["message_format"] \in {"html", "text"}

\* Letter case disregarded.
LowerOf ==
    [r \in {UpperCase[i] : i \in DOMAIN UpperCase} |->
        LowerCase[CHOOSE i \in DOMAIN UpperCase : UpperCase[i] = r]]
UpperOf ==
    [r \in {LowerCase[i] : i \in DOMAIN LowerCase} |->
        UpperCase[CHOOSE i \in DOMAIN LowerCase : LowerCase[i] = r]]
ToLowerRune(r) == IF r \in DOMAIN LowerOf THEN LowerOf[r] ELSE r
EqualFold(a, b) ==
    /\ Len(a) = Len(b)
    /\ \A i \in DOMAIN a : ToLowerRune(a[i]) = ToLowerRune(b[i])
\* The canonical form of a header name: its upper-cased spelling.
Canonical(h) == [i \in DOMAIN h |-> IF h[i] \in DOMAIN UpperOf THEN UpperOf[h[i]] ELSE h[i]]

SuppliedHeaders == IF Omitted("headers") THEN EmptyMap ELSE last.block["headers"]
Collide(h, g)   == h # g /\ EqualFold(h, g)
Collision       == \E h, g \in DOMAIN SuppliedHeaders : Collide(h, g)

\* No required-field rule, domain rule or derivation of the variant fails.
VariantChecksPass ==
    /\ NoneAbsent
    /\ last.variant = "Hipchat" => FormatInDomain
    /\ last.variant = "Email" => ~Collision

VariantErrors == {"MissingRequiredField", "InvalidEnumValue", "DuplicateHeader"}

C2_DefaultsNeverMutated ==
    /\ DefaultPagerdutyConfig = InitPagerdutyConfig
    /\ (Is("Pagerduty") /\ Omitted("details")) => last.c.Details = InitPagerdutyDetails

(***************************************************************************)
(* C3                                                                      *)
(***************************************************************************)
\* C3: a block that passes the variant's checks but has keys outside the
\* schema fails with the unrecognized-fields error naming the variant being
\* decoded and exactly those keys; a decode that succeeds had no such key.
C3_UnknownKeysNamedWithVariant ==
    /\ (Decoded /\ VariantChecksPass /\ Residual # {}) =>
            /\ last.err.kind = "UnrecognizedFields"
            /\ VariantOfCtx(last.err.ctx) = last.variant
            /\ last.err.keys = Residual
    /\ (Decoded /\ last.err = nil) => (Residual = {} /\ DOMAIN last.c.XXX = {})

(***************************************************************************)
(* C4                                                                      *)
(***************************************************************************)
\* The entries of the resulting headers whose name is n, letter case aside.
EntriesFor(n) == {k \in DOMAIN last.c.Headers : EqualFold(k, n)}
SuppliedFor(n) == {h \in DOMAIN SuppliedHeaders : EqualFold(h, n)}
DefaultInjectedOnlyIfMissing(n, dflt) ==
    IF SuppliedFor(n) = {}
    THEN n \in DOMAIN last.c.Headers /\ last.c.Headers[n] = dflt
    ELSE /\ Cardinality(EntriesFor(n)) = 1
         /\ \A k \in EntriesFor(n) : \A h \in SuppliedFor(n) :
                last.c.Headers[k] = SuppliedHeaders[h]

\* C4: after a successful e-mail decode Subject, To and From hold their
\* defaults where the block supplied none, and where it supplied one (in any
\* letter case) that is the only entry of that name.
C4_DefaultHeadersOnlyWhereMissing ==
    (Is("Email") /\ last.err = nil) =>
        /\ DefaultInjectedOnlyIfMissing(HdrSubject, DefaultEmailSubject)
        /\ DefaultInjectedOnlyIfMissing(HdrTo, last.c.To)
        /\ DefaultInjectedOnlyIfMissing(HdrFrom, last.c.From)

(***************************************************************************)
(* C5                                                                      *)
(***************************************************************************)
\* C5: decoding the value of a successful decode again succeeds with the same
\* value and no residual keys.
C5_RedecodeIsIdentity ==
    last.op = "redecode" =>
        /\ last.err = nil
        /\ last.c = last.prev
        /\ DOMAIN last.c.XXX = {}

NamesField(k) ==
    /\ last.err.kind = "MissingRequiredField"
    /\ last.err.field = k
    /\ VariantOfCtx(last.err.ctx) = last.variant

\* C7 as stated: with no unknown keys, every required field the block leaves
\* absent is the one the error names; with none absent there is no such error.
C7_EveryAbsentFieldNamed ==
    (Decoded /\ Residual = {}) =>
        /\ \A i \in DOMAIN RequiredOf : Absent(RequiredOf[i]) => NamesField(RequiredOf[i])
        /\ NoneAbsent => last.err.kind # "MissingRequiredField"

\* C7 amended: with no unknown keys, a block that leaves a required field
\* absent while supplying every required field listed before it fails with
\* the missing-field error naming that field and the variant; with none
\* absent there is no such error.
C7_FirstAbsentFieldNamed ==
    (Decoded /\ Residual = {}) =>
        /\ ~NoneAbsent => NamesField(FirstAbsent)
        /\ NoneAbsent => last.err.kind # "MissingRequiredField"

\* A Pushover block with a token and no user key was rejected for the user key.
C7_Witness ==
    /\ Is("Pushover") /\ Residual = {} /\ ~Absent("token") /\ Absent("user_key")
    /\ NamesField("user_key")

(***************************************************************************)
(* C8                                                                      *)
(***************************************************************************)
FormatOutcome(ok) ==
    /\ Omitted("message_format") =>
            (ok => last.err = nil) /\ last.c.MessageFormat = "html"
    /\ (~Omitted("message_format") /\ FormatInDomain) =>
            (ok => last.err = nil) /\ last.c.MessageFormat = last.block["message_format"]
    /\ ~FormatInDomain => last.err.kind = "InvalidEnumValue"

\* C8 as stated: with a non-empty auth_token, a block that omits the format
\* decodes successfully with html, one that gives html or text decodes with
\* it, any other value fails; a decoded value has html or text.
C8_FormatClosedWithDefault ==
    /\ (Is("Hipchat") /\ ~Absent("auth_token")) => FormatOutcome(TRUE)
    /\ (Is("Hipchat") /\ last.err = nil) => last.c.MessageFormat \in {"html", "text"}

\* C8 amended: the same, the two successes being those of blocks without
\* unknown keys.
C8_FormatClosedWithDefaultKnownKeys ==
    /\ (Is("Hipchat") /\ ~Absent("auth_token")) => FormatOutcome(Residual = {})
    /\ (Is("Hipchat") /\ last.err = nil) => last.c.MessageFormat \in {"html", "text"}

\* A HipChat block without a format was decoded to html.
C8_Witness ==
    /\ Is("Hipchat") /\ ~Absent("auth_token") /\ Omitted("message_format")
    /\ Residual = {} /\ last.err = nil /\ last.c.MessageFormat = "html"

(***************************************************************************)
(* C9                                                                      *)
(***************************************************************************)
\* C9: required fields are checked before domains before derivations, and
\* the first failure is the one reported: the first absent required field;
\* else the format outside its domain; else the colliding header. An e-mail
\* block without to keeps its headers as supplied.
C9_StagesInOrder ==
    Decoded =>
        /\ ~NoneAbsent => NamesField(FirstAbsent)
        /\ (NoneAbsent /\ last.variant = "Hipchat" /\ ~FormatInDomain) =>
                last.err.kind = "InvalidEnumValue"
        /\ (NoneAbsent /\ last.variant = "Email" /\ Collision) =>
                last.err.kind = "DuplicateHeader"
        /\ (last.variant = "Email" /\ Absent("to")) =>
                last.c.Headers = SuppliedHeaders

\* An e-mail block without to and with colliding headers was rejected for to.
C9_Witness ==
    /\ Is("Email") /\ Absent("to") /\ Collision
    /\ NamesField("to") /\ last.c.Headers = SuppliedHeaders

(***************************************************************************)
(* C10                                                                     *)
(***************************************************************************)
\* What the first decode of the process yields for the block: the target
\* newly allocated, the defaults as initialised.
FirstOutcomes(v, block) ==
    IF v = "Pagerduty"
    THEN PagerdutyFrom(InitPagerdutyConfig, block)
    ELSE UnmarshalYAML(v, Zero(v), block)

\* C10: the outcome of a decode depends on the variant and the block only,
\* not on what the target held or on the decodes made before.
C10_OutcomeDependsOnBlockOnly ==
    Called => Ret(last.c, last.err) \in FirstOutcomes(last.variant, last.block)

====
